---- MODULE Spec2Model ----
(***************************************************************************)
(* Tracing front-end of catalyst (frontend/catalyst/pennylane_extensions): *)
(* cond / while_loop / for_loop / measure / grad, in classical mode (no    *)
(* active queuing context) and in quantum mode (an active recording        *)
(* context).  User callables are described by the statements they run and  *)
(* the structure they return; capturing a callable runs its statements.    *)
(***************************************************************************)
EXTENDS Integers, Sequences, FiniteSets, TLC

VARIABLES
    tracing,    \* TracingContext.is_tracing()
    ctx,        \* kind of qml.QueuingManager.active_context(): "none", "jax", "plain"
    queue,      \* operations queued into the active recording context, in order
    eqns,       \* equations bound into the enclosing (classical) jax trace, in order
    obj,        \* the callable object the user built last (CondCallable, ...)
    last,       \* the last user-level invocation: its inputs and its outcome
    steps       \* number of user-level invocations so far

vars == <<tracing, ctx, queue, eqns, obj, last, steps>>

-----------------------------------------------------------------------------
(* Abstract values, values and pytrees *)

ShapedArray(shape, dtype, weak) == [dtype |-> dtype, shape |-> shape, weak_type |-> weak]

AbstractQreg == [dtype |-> "qreg", shape |-> <<>>, weak_type |-> FALSE]

NoAval == [dtype |-> "none", shape |-> <<>>, weak_type |-> FALSE]

isShapedArray(a) == a.dtype \notin {"qreg", "none"}

strip_weak_type(a) == [a EXCEPT !.weak_type = FALSE]

i64 == ShapedArray(<<>>, "int64", FALSE)
wi64 == ShapedArray(<<>>, "int64", TRUE)
f64 == ShapedArray(<<>>, "float64", FALSE)
bool == ShapedArray(<<>>, "bool", FALSE)
boolvec == ShapedArray(<<1>>, "bool", FALSE)

\* a value: an identity and its abstract type
Val(id, a) == [id |-> id, aval |-> a]

NoVal == Val("", NoAval)

abstractify(v) == v.aval

Qreg == Val("qreg", AbstractQreg)

\* pytrees: a leaf holds a value; None has no leaves; tuples and lists nest
Leaf(v) == [tag |-> "leaf", v |-> v, kids |-> <<>>]
NoneT == [tag |-> "none", v |-> NoVal, kids |-> <<>>]
TupleT(kids) == [tag |-> "tuple", v |-> NoVal, kids |-> kids]
ListT(kids) == [tag |-> "list", v |-> NoVal, kids |-> kids]

RECURSIVE tree_leaves(_)
RECURSIVE kids_leaves(_)
tree_leaves(t) ==
    IF t.tag = "leaf" THEN <<t.v>>
    ELSE IF t.tag = "none" THEN <<>>
    ELSE kids_leaves(t.kids)

kids_leaves(ks) ==
    IF ks = <<>> THEN <<>> ELSE tree_leaves(Head(ks)) \o kids_leaves(Tail(ks))

RECURSIVE tree_structure(_)
tree_structure(t) ==
    [tag |-> t.tag, v |-> NoVal,
     kids |-> [i \in DOMAIN t.kids |-> tree_structure(t.kids[i])]]

\* tree_flatten returns (leaves, treedef)
tree_flatten(t) == <<tree_leaves(t), tree_structure(t)>>

RECURSIVE num_leaves(_)
RECURSIVE kids_num_leaves(_)
num_leaves(td) ==
    IF td.tag = "leaf" THEN 1
    ELSE IF td.tag = "none" THEN 0
    ELSE kids_num_leaves(td.kids)

kids_num_leaves(ks) ==
    IF ks = <<>> THEN 0 ELSE num_leaves(Head(ks)) + kids_num_leaves(Tail(ks))

RECURSIVE num_nodes(_)
RECURSIVE kids_num_nodes(_)
num_nodes(td) == 1 + kids_num_nodes(td.kids)

kids_num_nodes(ks) ==
    IF ks = <<>> THEN 0 ELSE num_nodes(Head(ks)) + kids_num_nodes(Tail(ks))

treedef_is_leaf(td) == num_nodes(td) = 1

RECURSIVE tree_unflatten(_, _)
tree_unflatten(td, leaves) ==
    IF td.tag = "leaf" THEN Leaf(leaves[1])
    ELSE IF td.tag = "none" THEN NoneT
    ELSE [tag |-> td.tag, v |-> NoVal,
          kids |-> [i \in DOMAIN td.kids |->
                      LET skip == kids_num_leaves(SubSeq(td.kids, 1, i - 1))
                      IN tree_unflatten(td.kids[i],
                            SubSeq(leaves, skip + 1, skip + num_leaves(td.kids[i])))]]

Map(f(_), s) == [i \in DOMAIN s |-> f(s[i])]

avals_of(vs) == Map(abstractify, vs)

\* a placeholder tracer standing for a value of abstract type a
Tracer(a) == Val("tracer", a)

\* jax_tape.create_tracer(tree, avals): placeholders in the given structure
create_tracer(td, avals) == tree_unflatten(td, Map(Tracer, avals))

-----------------------------------------------------------------------------
(* User callables and the statements they run *)

\* a Python callable: the statements it runs, the structure it returns
\* (NoneT when it returns nothing) and the outer values it closes over
Fn(stmts, ret, consts) == [stmts |-> stmts, ret |-> ret, consts |-> consts]

Stmt(k, name, wire, fns, args, vals) ==
    [k |-> k, name |-> name, wire |-> wire, fns |-> fns, args |-> args, vals |-> vals]

GateS(name, w) == Stmt("gate", name, w, <<>>, <<>>, <<>>)
MeasureS(w, id) == Stmt("measure", id, w, <<>>, <<>>, <<>>)
CondS(pred, fns) == Stmt("cond", "", 0, fns, <<>>, <<pred>>)
WhileS(fns, args) == Stmt("while", "", 0, fns, args, <<>>)
ForS(bounds, fn, args) == Stmt("for", "", 0, <<fn>>, args, bounds)

\* CondCallable.__init__: self.false_fn = lambda: None
default_false_fn == Fn(<<>>, NoneT, <<>>)

-----------------------------------------------------------------------------
(* Queued operations, equations and captured sub-programs *)

Operation(cls, wires, id, pred, bounds, iter_args, consts, jaxprs, trees) ==
    [cls |-> cls, wires |-> wires, id |-> id, pred |-> pred, bounds |-> bounds,
     iter_args |-> iter_args, consts |-> consts, jaxprs |-> jaxprs, trees |-> trees]

GateOp(name, w) == Operation(name, <<w>>, "", <<>>, <<>>, <<>>, <<>>, <<>>, <<>>)

MidCircuitMeasure(measurement_id, w) ==
    Operation("MidCircuitMeasure", <<w>>, measurement_id, <<>>, <<>>, <<>>, <<>>, <<>>, <<>>)

Cond(pred, consts, true_jaxpr, false_jaxpr, args_tree, out_trees) ==
    Operation("Cond", <<>>, "", <<pred>>, <<>>, <<>>, <<consts>>,
              <<true_jaxpr, false_jaxpr>>, <<args_tree>> \o out_trees)

WhileLoop(iter_args, body_jaxpr, cond_jaxpr, cond_consts, body_consts, body_tree) ==
    Operation("WhileLoop", <<>>, "", <<>>, <<>>, iter_args, <<cond_consts, body_consts>>,
              <<cond_jaxpr, body_jaxpr>>, <<body_tree>>)

ForLoop(loop_bounds, iter_args, body_jaxpr, body_consts, body_tree) ==
    Operation("ForLoop", <<>>, "", <<>>, loop_bounds, iter_args, <<body_consts>>,
              <<body_jaxpr>>, <<body_tree>>)

\* an equation of a (sub-)program; reg_in / reg_out number the register value
\* it consumes / produces inside its program (-1: none)
Eqn(prim, name, operands, jaxprs, nconsts, reg_in, reg_out) ==
    [prim |-> prim, name |-> name, operands |-> operands, jaxprs |-> jaxprs,
     nconsts |-> nconsts, reg_in |-> reg_in, reg_out |-> reg_out]

\* a closed sub-program: typed inputs (captured constants first), equations,
\* typed outputs, and the number of the register value it returns (-1: none)
Jaxpr(in_avals, es, out_avals, reg_out) ==
    [in_avals |-> in_avals, eqns |-> es, out_avals |-> out_avals, reg_out |-> reg_out]

\* jprim.qcond(true_jaxpr, false_jaxpr, *inputs)
qcond(true_jaxpr, false_jaxpr, inputs) ==
    Eqn("qcond", "", inputs, <<true_jaxpr, false_jaxpr>>, <<>>, -1, -1)

\* jprim.qwhile(cond_jaxpr, body_jaxpr, cond_nconsts, body_nconsts, *inputs)
qwhile(cond_jaxpr, body_jaxpr, cond_nconsts, body_nconsts, inputs) ==
    Eqn("qwhile", "", inputs, <<cond_jaxpr, body_jaxpr>>,
        <<cond_nconsts, body_nconsts>>, -1, -1)

\* jprim.qfor(body_jaxpr, body_nconsts, *inputs)
qfor(body_jaxpr, body_nconsts, inputs) ==
    Eqn("qfor", "", inputs, <<body_jaxpr>>, <<body_nconsts>>, -1, -1)

\* outcome of running or capturing something: status, the operations queued
\* into the enclosing recording context, the equations bound into the current
\* jax trace, the returned structure, captured constants, returned register
Run(status, q, e, out, consts, reg_out) ==
    [status |-> status, q |-> q, e |-> e, out |-> out, consts |-> consts,
     reg_out |-> reg_out]

Raise(status, q) == Run(status, q, <<>>, NoneT, <<>>, -1)

ButLast(s) == IF s = <<>> THEN <<>> ELSE SubSeq(s, 1, Len(s) - 1)

\* "x = v; F(x)": v is computed once and named
Let(v, F(_)) == F(v)

-----------------------------------------------------------------------------
(* QJITDevice: vocabulary and decomposition policy *)

operations ==
    {"MidCircuitMeasure", "Cond", "WhileLoop", "ForLoop", "PauliX", "PauliY", "PauliZ",
     "Hadamard", "Identity", "S", "T", "PhaseShift", "RX", "RY", "RZ", "CNOT", "CY",
     "CZ", "SWAP", "IsingXX", "IsingYY", "IsingXY", "IsingZZ", "ControlledPhaseShift",
     "CRX", "CRY", "CRZ", "CRot", "CSWAP", "MultiRZ", "QubitUnitary"}

observables ==
    {"Identity", "PauliX", "PauliY", "PauliZ", "Hadamard", "Hermitian", "Hamiltonian"}

\* a recorded tape: its operations and the observables of its measurements
Tape(ops, obs) == [operations |-> ops, observables |-> obs]

\* an observable on a wire
Observable(name, w) == [name |-> name, wires |-> <<w>>]

\* the decomposition library under the Patcher of default_expand_fn: controlled
\* constructs become one QubitUnitary; U3 and Rot have library decompositions;
\* an operation without one stays as it is
decomposition(op) ==
    IF op.cls \in {"ControlledQubitUnitary", "Controlled"}
        THEN <<GateOp("QubitUnitary", op.wires[1])>>
    ELSE IF op.cls = "Rot"
        THEN <<GateOp("RZ", op.wires[1]), GateOp("RY", op.wires[1]), GateOp("RZ", op.wires[1])>>
    ELSE IF op.cls = "U3"
        THEN <<GateOp("Rot", op.wires[1]), GateOp("PhaseShift", op.wires[1]),
               GateOp("PhaseShift", op.wires[1])>>
    ELSE <<op>>

RECURSIVE expand_ops(_)
expand_ops(circuit) ==
    IF circuit = <<>> THEN <<>>
    ELSE (IF Head(circuit).cls \in operations THEN <<Head(circuit)>>
          ELSE decomposition(Head(circuit))) \o expand_ops(Tail(circuit))

\* super().default_expand_fn: expand the operations until only supported ones
\* are left, at most max_expansion times; observables are left as they are
RECURSIVE super_default_expand_fn(_, _)
super_default_expand_fn(circuit, max_expansion) ==
    IF max_expansion = 0
       \/ \A i \in DOMAIN circuit.operations : circuit.operations[i].cls \in operations
        THEN circuit
    ELSE super_default_expand_fn(Tape(expand_ops(circuit.operations), circuit.observables),
                                 max_expansion - 1)

\* Device.check_validity(queue, observables): TRUE when it passes, FALSE when
\* it raises DeviceError
check_validity(queue_ops, obs) ==
    /\ \A i \in DOMAIN queue_ops : queue_ops[i].cls \in operations
    /\ \A i \in DOMAIN obs : obs[i].name \in observables

Expanded(status, tape) == [status |-> status, tape |-> tape]

\* QJITDevice.default_expand_fn(circuit, max_expansion)
default_expand_fn(circuit, max_expansion) ==
    IF \E i \in DOMAIN circuit.operations : circuit.operations[i].cls = "MidMeasureMP"
        THEN Expanded("TypeError", Tape(<<>>, <<>>))
    ELSE Let(super_default_expand_fn(circuit, max_expansion), LAMBDA expanded_tape :
             IF ~check_validity(expanded_tape.operations, <<>>)
               THEN Expanded("DeviceError", Tape(<<>>, <<>>))
             ELSE Expanded("ok", expanded_tape))

\* JaxTape.device.expand_fn(tape.quantum_tape)
expand_fn(circuit) == default_expand_fn(circuit, 10)

-----------------------------------------------------------------------------
(* Quantum tape adapter: queued operations to register-threaded equations *)

\* the equation one queued operation becomes, consuming register r and
\* producing register r + 1
TraceOp(op, r) ==
    CASE op.cls = "Cond" ->
            Eqn("qcond", "", op.pred \o op.consts[1] \o <<Qreg>>, op.jaxprs, <<>>, r, r + 1)
      [] op.cls = "WhileLoop" ->
            Eqn("qwhile", "", op.consts[1] \o op.consts[2] \o op.iter_args \o <<Qreg>>,
                op.jaxprs, <<Len(op.consts[1]), Len(op.consts[2])>>, r, r + 1)
      [] op.cls = "ForLoop" ->
            Eqn("qfor", "", op.bounds \o op.consts[1] \o op.iter_args \o <<Qreg>>,
                op.jaxprs, <<Len(op.consts[1])>>, r, r + 1)
      [] op.cls = "MidCircuitMeasure" ->
            Eqn("qmeasure", op.id, <<Qreg>>, <<>>, <<>>, r, r + 1)
      [] OTHER ->
            Eqn("qinst", op.cls, <<Qreg>>, <<>>, <<>>, r, r + 1)

\* trace_quantum_tape(tape, qreg, has_tracer_return_values):
\* (return_values, qreg, qubit_states); qubit_states are the wires whose
\* qubits are still to be put back into the register
trace_quantum_tape(tape_ops, out, qreg, has_tracer_return_values) ==
    [return_values |-> IF has_tracer_return_values THEN out ELSE NoneT,
     eqns |-> [i \in DOMAIN tape_ops |-> TraceOp(tape_ops[i], qreg + i - 1)],
     qreg |-> qreg + Len(tape_ops),
     qubit_states |-> {tape_ops[i].wires[1] : i \in {j \in DOMAIN tape_ops : tape_ops[j].wires # <<>>}}]

\* insert_to_qreg(qubit_states, qreg): one insertion when qubits are pending
insert_to_qreg(qubit_states, qreg) ==
    IF qubit_states = {} THEN [eqns |-> <<>>, qreg |-> qreg]
    ELSE [eqns |-> <<Eqn("qinsert", "", <<Qreg>>, <<>>, <<>>, qreg, qreg + 1)>>,
          qreg |-> qreg + 1]

-----------------------------------------------------------------------------
(* Capture of callables into sub-programs *)

\* _initial_style_jaxpr(fun, in_tree, in_avals): run is the outcome of running
\* fun on tracers; the closed sub-program takes the captured constants first
initial_style_jaxpr(run, in_avals) ==
    [jaxpr |-> Jaxpr(avals_of(run.consts) \o in_avals, run.e,
                     avals_of(tree_leaves(run.out)), run.reg_out),
     consts |-> run.consts,
     out_tree |-> tree_structure(run.out)]

\* _initial_style_jaxprs_with_common_consts((f1, f2), in_tree, in_avals):
\* every sub-program takes the constants of all of them
initial_style_jaxprs_with_common_consts(run1, run2, in_avals) ==
    Let(run1.consts \o run2.consts, LAMBDA consts :
       [jaxprs |-> <<Jaxpr(avals_of(consts) \o in_avals, run1.e,
                           avals_of(tree_leaves(run1.out)), run1.reg_out),
                     Jaxpr(avals_of(consts) \o in_avals, run2.e,
                           avals_of(tree_leaves(run2.out)), run2.reg_out)>>,
        consts |-> consts,
        out_trees |-> <<tree_structure(run1.out), tree_structure(run2.out)>>])

-----------------------------------------------------------------------------
(* Running user callables *)

RECURSIVE RunStmts(_, _, _)

\* Operation.__init__ queues the new operation into the active recording
\* context, if there is one
queued(op, c) == IF c = "none" THEN <<>> ELSE <<op>>

\* TracingContext.check_is_tracing(msg): TRUE when it raises
check_is_tracing(tr) == ~tr

\* fn(): its statements run under the active context c
CallFn(fn, tr, c) ==
    Let(RunStmts(fn.stmts, tr, c), LAMBDA r :
        IF r.status # "ok" THEN r ELSE Run("ok", r.q, r.e, fn.ret, fn.consts, -1))

\* the wrapper with the operations of fn also left in the enclosing context
thread_register_leaky(fn, tr, has_tracer_return_values) ==
    Let(CallFn(fn, tr, "jax"), LAMBDA body :
        IF body.status # "ok" THEN Raise(body.status, <<>>)
        ELSE Let(expand_fn(Tape(body.q, <<>>)), LAMBDA new_quantum_tape :
            IF new_quantum_tape.status # "ok" THEN Raise(new_quantum_tape.status, <<>>)
            ELSE Let(trace_quantum_tape(new_quantum_tape.tape.operations, fn.ret, 0,
                                        has_tracer_return_values), LAMBDA t :
                 Let(insert_to_qreg(t.qubit_states, t.qreg), LAMBDA ins :
                     Run("ok", body.q, body.e \o t.eqns \o ins.eqns,
                         TupleT(<<t.return_values, Leaf(Qreg)>>), fn.consts, ins.qreg)))))

\* the wrapper with the insertion's result discarded: the register handed back
\* is the one the insertion consumed
thread_register_stale(fn, tr, has_tracer_return_values) ==
    Let(CallFn(fn, tr, "jax"), LAMBDA body :
        IF body.status # "ok" THEN Raise(body.status, <<>>)
        ELSE Let(expand_fn(Tape(body.q, <<>>)), LAMBDA new_quantum_tape :
            IF new_quantum_tape.status # "ok" THEN Raise(new_quantum_tape.status, <<>>)
            ELSE Let(trace_quantum_tape(new_quantum_tape.tape.operations, fn.ret, 0,
                                        has_tracer_return_values), LAMBDA t :
                 Let(insert_to_qreg(t.qubit_states, t.qreg), LAMBDA ins :
                     Run("ok", <<>>, body.e \o t.eqns \o ins.eqns,
                         TupleT(<<t.return_values, Leaf(Qreg)>>), fn.consts, t.qreg)))))

\* the register-threading wrapper shared by new_true_fn, new_false_fn and the
\* loops' new_body: run fn under a fresh JaxTape, expand the tape, thread qreg
\* through it and return (return_values, qreg)
thread_register(fn, tr, has_tracer_return_values) ==
    Let(CallFn(fn, tr, "jax"), LAMBDA body :
        IF body.status # "ok" THEN Raise(body.status, <<>>)
        ELSE Let(expand_fn(Tape(body.q, <<>>)), LAMBDA new_quantum_tape :
            IF new_quantum_tape.status # "ok" THEN Raise(new_quantum_tape.status, <<>>)
            ELSE Let(trace_quantum_tape(new_quantum_tape.tape.operations, fn.ret, 0,
                                        has_tracer_return_values), LAMBDA t :
                 Let(insert_to_qreg(t.qubit_states, t.qreg), LAMBDA ins :
                     Run("ok", <<>>, body.e \o t.eqns \o ins.eqns,
                         TupleT(<<t.return_values, Leaf(Qreg)>>), fn.consts, ins.qreg)))))

-----------------------------------------------------------------------------
(* grad: the differentiation request *)

\* Python values handed to grad
None == [kind |-> "None"]
Str(s) == [kind |-> "str", chars |-> s]
PyInt(n) == [kind |-> "int", int |-> n]
PyFloat(s) == [kind |-> "float", repr |-> s]
List(s) == [kind |-> "list", items |-> s]

\* isinstance(h, numbers.Number)
isNumber(h) == h.kind \in {"int", "float"}

\* callees: a qml.QNode, a plain function, a callable with no __name__
QNode(name) == [kind |-> "QNode", __name__ |-> <<name>>]
PlainFunction(name) == [kind |-> "function", __name__ |-> <<name>>]
Partial == [kind |-> "partial"]

hasName(f) == "__name__" \in DOMAIN f

\* no object
NoObj == [kind |-> "none", vals |-> <<>>, fns |-> <<>>, otherwise |-> FALSE]
GradRaise(status) == [status |-> status, obj |-> NoObj]

\* Function.__init__(grad)
Function(f) ==
    IF ~hasName(f) THEN GradRaise("AttributeError")
    ELSE [status |-> "ok",
          obj |-> [kind |-> "Function", fn |-> f, __name__ |-> <<"grad">> \o f.__name__]]

\* Grad.__init__ with no check of the callee
Grad_unchecked(fn, method, h, argnum) ==
    [status |-> "ok",
     obj |-> [kind |-> "Grad", fn |-> fn, __name__ |-> fn.__name__, method |-> method,
              h |-> h, argnum |-> argnum]]

\* Grad.__init__(fn, method, h, argnum)
Grad(fn, method, h, argnum) ==
    IF method # Str("fd") /\ fn.kind # "QNode" THEN GradRaise("AssertionError")
    ELSE [status |-> "ok",
          obj |-> [kind |-> "Grad", fn |-> fn, __name__ |-> fn.__name__, method |-> method,
                   h |-> h, argnum |-> argnum]]

default_h == PyFloat("1e-7")

\* the argument indices left as given unless missing
argnum_as_given(argnum) == IF argnum = None THEN List(<<PyInt(0)>>) ELSE argnum

\* if argnum is None: argnum = [0]; elif isinstance(argnum, int): argnum = [argnum]
argnum_list(argnum) ==
    IF argnum = None THEN List(<<PyInt(0)>>)
    ELSE IF argnum.kind = "int" THEN List(<<argnum>>)
    ELSE argnum

\* grad(f, method, h, argnum)
grad(f, method, h, argnum) ==
    Let(IF method = None THEN Str("fd") ELSE method, LAMBDA m :
    IF m \notin {Str("fd"), Str("ps"), Str("adj")} THEN GradRaise("AssertionError")
    ELSE Let(IF m = Str("fd") /\ h = None THEN default_h ELSE h, LAMBDA hh :
    IF ~(hh = None \/ isNumber(hh)) THEN GradRaise("AssertionError")
    ELSE Let(argnum_list(argnum), LAMBDA an :
    IF f.kind = "QNode" THEN Grad(f, m, hh, an)
    ELSE Let(Function(f), LAMBDA fun :
         IF fun.status # "ok" THEN fun ELSE Grad(fun.obj, m, hh, an)))))

\* jprim.grad_p.bind(*args, jaxpr, fn, method, h, argnum)
grad_p(self, args) ==
    [prim |-> "grad", name |-> self.__name__, operands |-> args, jaxprs |-> <<>>,
     nconsts |-> <<>>, reg_in |-> -1, reg_out |-> -1,
     method |-> self.method, h |-> self.h, argnum |-> self.argnum]

\* a QNode on a device other than lightning.qubit
ForeignQNode(name, short_name) ==
    [kind |-> "QNode", __name__ |-> <<name>>, short_name |-> short_name]

\* a QNode whose call is not QFunc.__call__: capturing it yields the equations
\* its own evaluation binds
UnpatchedQNode(name, body) == [kind |-> "QNode", __name__ |-> <<name>>, body |-> body]

\* jprim.func_p.bind(wrapped, *args, fn=self)
func_p(self, args) == Eqn("func", self.__name__, args, <<>>, <<>>, -1, -1)

\* an equation of some other primitive
other_p(args) == Eqn("mul", <<>>, args, <<>>, <<>>, -1, -1)

Captured(status, es) == [status |-> status, eqns |-> es]

\* QFunc.__call__(*args)
QFunc_call(self, args) ==
    IF "short_name" \in DOMAIN self /\ self.short_name # "lightning.qubit"
      THEN Captured("TypeError", <<>>)
    ELSE Captured("ok", <<func_p(self, args)>>)

RECURSIVE Grad_call(_, _)

\* Function.__call__(*args): the wrapped callable is captured, then one func
\* equation is bound
Function_call(self, args) ==
    IF self.fn.kind = "Grad"
      THEN Let(Grad_call(self.fn, args), LAMBDA inner :
               IF inner.status # "ok" THEN Captured(inner.status, <<>>)
               ELSE Captured("ok", <<func_p(self, args)>>))
    ELSE Captured("ok", <<func_p(self, args)>>)

\* jax.make_jaxpr(self.fn)(*args)
make_jaxpr(fn, args) ==
    IF fn.kind = "Function" THEN Function_call(fn, args)
    ELSE IF "body" \in DOMAIN fn THEN Captured("ok", fn.body)
    ELSE QFunc_call(fn, args)

\* Grad.__call__ binding whatever was captured
Grad_call_unasserted(self, args) ==
    Let(make_jaxpr(self.fn, args), LAMBDA jaxpr :
        IF jaxpr.status # "ok" THEN Raise(jaxpr.status, <<>>)
        ELSE Run("ok", <<>>, <<grad_p(self, args)>>, NoneT, <<>>, -1))

\* Grad.__call__(*args)
Grad_call(self, args) ==
    Let(make_jaxpr(self.fn, args), LAMBDA jaxpr :
        IF jaxpr.status # "ok" THEN Raise(jaxpr.status, <<>>)
        ELSE IF Len(jaxpr.eqns) # 1 THEN Raise("AssertionError", <<>>)
        ELSE IF jaxpr.eqns[1].prim # "func" THEN Raise("AssertionError", <<>>)
        ELSE Run("ok", <<>>, <<grad_p(self, args)>>, NoneT, <<>>, -1))

-----------------------------------------------------------------------------
(* measure *)

\* measure accepting any active recording context
measure_any_ctx(wires, measurement_id, c) ==
    Let(queued(MidCircuitMeasure(measurement_id, wires), c), LAMBDA q :
        IF c # "none"
          THEN Run("ok", q, <<>>,
                   create_tracer(tree_structure(Leaf(Val("True", bool))), <<bool>>),
                   <<>>, -1)
        ELSE Raise("ValueError", q))

measure(wires, measurement_id, c) ==
    Let(queued(MidCircuitMeasure(measurement_id, wires), c), LAMBDA q :
        IF c = "jax"
          THEN Run("ok", q, <<>>,
                   create_tracer(tree_structure(Leaf(Val("True", bool))), <<bool>>),
                   <<>>, -1)
        ELSE Raise("ValueError", q))

-----------------------------------------------------------------------------
(* CondCallable *)

\* TRUE when the check passes, FALSE when it raises TypeError
check_branches_return_types(true_jaxpr, false_jaxpr) ==
    ButLast(true_jaxpr.out_avals) = ButLast(false_jaxpr.out_avals)

Cond_new_true_fn(true_fn, tr) == thread_register(true_fn, tr, true_fn.ret # NoneT)

Cond_new_false_fn(false_fn, tr) == thread_register(false_fn, tr, false_fn.ret # NoneT)

Cond_call_with_quantum_ctx(pred, true_fn, false_fn, tr, c) ==
    Let(Cond_new_true_fn(true_fn, tr), LAMBDA t :
    IF t.status # "ok" THEN Raise(t.status, <<>>)
    ELSE Let(Cond_new_false_fn(false_fn, tr), LAMBDA f :
    IF f.status # "ok" THEN Raise(f.status, <<>>)
    ELSE Let(initial_style_jaxprs_with_common_consts(t, f, <<abstractify(Qreg)>>), LAMBDA js :
    IF ~check_branches_return_types(js.jaxprs[1], js.jaxprs[2])
      THEN Raise("TypeError", <<>>)
    ELSE Let(queued(Cond(pred, js.consts, js.jaxprs[1], js.jaxprs[2],
                         tree_structure(TupleT(<<Leaf(Qreg)>>)), js.out_trees), c), LAMBDA q :
    IF c # "jax" THEN Raise("AttributeError", t.q \o f.q \o q)
    ELSE Let(tree_unflatten(js.out_trees[1], js.jaxprs[1].out_avals).kids[1], LAMBDA ret_vals :
         Run("ok", t.q \o f.q \o q, <<>>, create_tracer(tree_structure(ret_vals), tree_leaves(ret_vals)),
             <<>>, -1))))))

Cond_call_with_classical_ctx(pred, true_fn, false_fn, tr) ==
    Let(CallFn(true_fn, tr, "none"), LAMBDA t :
    IF t.status # "ok" THEN Raise(t.status, <<>>)
    ELSE Let(CallFn(false_fn, tr, "none"), LAMBDA f :
    IF f.status # "ok" THEN Raise(f.status, <<>>)
    ELSE Let(initial_style_jaxprs_with_common_consts(t, f, <<>>), LAMBDA js :
    IF ~check_branches_return_types(js.jaxprs[1], js.jaxprs[2])
      THEN Raise("TypeError", <<>>)
    ELSE Run("ok", <<>>,
             <<qcond(js.jaxprs[1], js.jaxprs[2], <<pred>> \o js.consts)>>,
             tree_unflatten(js.out_trees[1], Map(Tracer, js.jaxprs[1].out_avals)),
             <<>>, -1))))

CondCallable_call(pred, true_fn, false_fn, tr, c) ==
    IF check_is_tracing(tr) THEN Raise("UsageError", <<>>)
    ELSE IF c = "none" THEN Cond_call_with_classical_ctx(pred, true_fn, false_fn, tr)
    ELSE Cond_call_with_quantum_ctx(pred, true_fn, false_fn, tr, c)

-----------------------------------------------------------------------------
(* WhileCallable *)

WhileJaxprs(st, cj, bj) ==
    [status |-> st, body_jaxpr |-> bj.jaxpr, cond_jaxpr |-> cj.jaxpr,
     cond_consts |-> cj.consts, body_consts |-> bj.consts, body_tree |-> bj.out_tree]

\* the capture without the check of the predicate's output
While_create_jaxpr_unchecked(init_val, new_cond, new_body) ==
    Let(avals_of(tree_leaves(init_val)), LAMBDA init_avals :
        WhileJaxprs("ok", initial_style_jaxpr(new_cond, init_avals),
                    initial_style_jaxpr(new_body, init_avals)))

\* status "ok" with the sub-programs, or "TypeError"
While_create_jaxpr(init_val, new_cond, new_body) ==
    Let(avals_of(tree_leaves(init_val)), LAMBDA init_avals :
    Let(initial_style_jaxpr(new_cond, init_avals), LAMBDA cj :
    Let(initial_style_jaxpr(new_body, init_avals), LAMBDA bj :
    IF ~treedef_is_leaf(cj.out_tree) \/ Len(cj.jaxpr.out_avals) # 1
      THEN WhileJaxprs("TypeError", cj, bj)
    ELSE IF ~isShapedArray(cj.jaxpr.out_avals[1])
            \/ strip_weak_type(cj.jaxpr.out_avals[1]) # ShapedArray(<<>>, "bool", FALSE)
      THEN WhileJaxprs("TypeError", cj, bj)
    ELSE WhileJaxprs("ok", cj, bj))))

\* new_cond handing cond_fn everything it was given
While_new_cond_with_qreg(cond_fn, args_and_qreg, tr, c) ==
    CallFn(cond_fn, tr, c) @@ [args |-> args_and_qreg]

\* new_cond drops the register and calls cond_fn(*args) under the enclosing
\* context; args records what cond_fn was called with
While_new_cond(cond_fn, args_and_qreg, tr, c) ==
    CallFn(cond_fn, tr, c) @@ [args |-> ButLast(args_and_qreg)]

While_new_body(body_fn, tr) == thread_register(body_fn, tr, TRUE)

While_call_with_quantum_ctx(cond_fn, body_fn, args, tr, c) ==
    Let(While_new_cond(cond_fn, args \o <<Leaf(Qreg)>>, tr, c), LAMBDA nc :
    IF nc.status # "ok" THEN Raise(nc.status, nc.q)
    ELSE Let(While_new_body(body_fn, tr), LAMBDA nb :
    IF nb.status # "ok" THEN Raise(nb.status, nc.q)
    ELSE Let(While_create_jaxpr(TupleT(args \o <<Leaf(Qreg)>>), nc, nb), LAMBDA j :
    IF j.status # "ok" THEN Raise(j.status, nc.q)
    ELSE Let(tree_leaves(TupleT(args)), LAMBDA flat_init_vals_no_qubits :
         Let(queued(WhileLoop(flat_init_vals_no_qubits, j.body_jaxpr, j.cond_jaxpr,
                              j.cond_consts, j.body_consts, j.body_tree), c), LAMBDA q :
    IF c # "jax" THEN Raise("AttributeError", nc.q \o nb.q \o q)
    ELSE Let(tree_unflatten(j.body_tree, j.body_jaxpr.out_avals).kids[1], LAMBDA ret_vals :
         Run("ok", nc.q \o nb.q \o q, <<>>,
             create_tracer(tree_structure(ret_vals), tree_leaves(ret_vals)), <<>>, -1)
             @@ [cond_args |-> nc.args]))))))

While_call_with_classical_ctx(cond_fn, body_fn, args, tr) ==
    Let(CallFn(cond_fn, tr, "none"), LAMBDA nc :
    IF nc.status # "ok" THEN Raise(nc.status, <<>>)
    ELSE Let(CallFn(body_fn, tr, "none"), LAMBDA nb :
    IF nb.status # "ok" THEN Raise(nb.status, <<>>)
    ELSE Let(While_create_jaxpr(TupleT(args), nc, nb), LAMBDA j :
    IF j.status # "ok" THEN Raise(j.status, <<>>)
    ELSE Let(tree_leaves(TupleT(args)), LAMBDA flat_init_vals_no_qubits :
         Run("ok", <<>>,
             <<qwhile(j.cond_jaxpr, j.body_jaxpr, Len(j.cond_consts), Len(j.body_consts),
                      j.cond_consts \o j.body_consts \o flat_init_vals_no_qubits)>>,
             tree_unflatten(j.body_tree, Map(Tracer, j.body_jaxpr.out_avals)), <<>>, -1)))))

\* the dispatch without the tracing check
WhileCallable_call_unchecked(cond_fn, body_fn, args, tr, c) ==
    IF c # "none" THEN While_call_with_quantum_ctx(cond_fn, body_fn, args, tr, c)
    ELSE While_call_with_classical_ctx(cond_fn, body_fn, args, tr)

WhileCallable_call(cond_fn, body_fn, args, tr, c) ==
    IF check_is_tracing(tr) THEN Raise("UsageError", <<>>)
    ELSE IF c # "none" THEN While_call_with_quantum_ctx(cond_fn, body_fn, args, tr, c)
    ELSE While_call_with_classical_ctx(cond_fn, body_fn, args, tr)

-----------------------------------------------------------------------------
(* ForLoopCallable *)

For_create_jaxpr(init_val, new_body) ==
    Let(initial_style_jaxpr(new_body, avals_of(tree_leaves(init_val))), LAMBDA bj :
        [body_jaxpr |-> bj.jaxpr, body_consts |-> bj.consts, body_tree |-> bj.out_tree])

For_new_body(body_fn, tr) == thread_register(body_fn, tr, body_fn.ret # NoneT)

\* the arguments left as the caller gave them
For_args_noindex(bounds, user_args) == user_args

\* args = (self.lower_bound, *args)
For_args(bounds, user_args) == <<Leaf(bounds[1])>> \o user_args

For_call_with_quantum_ctx(bounds, body_fn, user_args, tr, c) ==
    Let(For_args(bounds, user_args), LAMBDA args :
    Let(For_new_body(body_fn, tr), LAMBDA nb :
    IF nb.status # "ok" THEN Raise(nb.status, <<>>)
    ELSE Let(For_create_jaxpr(TupleT(args \o <<Leaf(Qreg)>>), nb), LAMBDA j :
         Let(tree_leaves(TupleT(args)), LAMBDA flat_init_vals_no_qubits :
         Let(queued(ForLoop(bounds, flat_init_vals_no_qubits, j.body_jaxpr, j.body_consts,
                            j.body_tree), c), LAMBDA q :
    IF c # "jax" THEN Raise("AttributeError", nb.q \o q)
    ELSE Let(tree_unflatten(j.body_tree, j.body_jaxpr.out_avals).kids[1], LAMBDA ret_vals :
         Run("ok", nb.q \o q, <<>>,
             create_tracer(tree_structure(ret_vals), tree_leaves(ret_vals)), <<>>, -1)))))))

For_call_with_classical_ctx(bounds, body_fn, user_args, tr) ==
    Let(For_args(bounds, user_args), LAMBDA args :
    Let(CallFn(body_fn, tr, "none"), LAMBDA nb :
    IF nb.status # "ok" THEN Raise(nb.status, <<>>)
    ELSE Let(For_create_jaxpr(TupleT(args), nb), LAMBDA j :
         Let(tree_leaves(TupleT(args)), LAMBDA flat_init_vals_no_qubits :
         Run("ok", <<>>,
             <<qfor(j.body_jaxpr, Len(j.body_consts),
                    bounds \o j.body_consts \o flat_init_vals_no_qubits)>>,
             tree_unflatten(j.body_tree, Map(Tracer, j.body_jaxpr.out_avals)), <<>>, -1)))))

ForLoopCallable_call(bounds, body_fn, user_args, tr, c) ==
    IF check_is_tracing(tr) THEN Raise("UsageError", <<>>)
    ELSE IF c = "none" THEN For_call_with_classical_ctx(bounds, body_fn, user_args, tr)
    ELSE For_call_with_quantum_ctx(bounds, body_fn, user_args, tr, c)

-----------------------------------------------------------------------------
(* Statements of user callables *)

RunStmt(s, tr, c) ==
    CASE s.k = "gate" -> Run("ok", queued(GateOp(s.name, s.wire), c), <<>>, NoneT, <<>>, -1)
      [] s.k = "measure" -> measure(s.wire, s.name, c)
      [] s.k = "cond" ->
            CondCallable_call(s.vals[1], s.fns[1],
                              IF Len(s.fns) > 1 THEN s.fns[2] ELSE default_false_fn, tr, c)
      [] s.k = "while" -> WhileCallable_call(s.fns[1], s.fns[2], s.args, tr, c)
      [] s.k = "for" -> ForLoopCallable_call(s.vals, s.fns[1], s.args, tr, c)

RunStmts(stmts, tr, c) ==
    IF stmts = <<>> THEN Run("ok", <<>>, <<>>, NoneT, <<>>, -1)
    ELSE Let(RunStmt(Head(stmts), tr, c), LAMBDA r1 :
         IF r1.status # "ok" THEN r1
         ELSE Let(RunStmts(Tail(stmts), tr, c), LAMBDA r2 :
              [r2 EXCEPT !.q = r1.q \o r2.q, !.e = r1.e \o r2.e]))

-----------------------------------------------------------------------------
(* The tracing session *)


NoCall ==
    [op |-> "none", status |-> "ok", fns |-> <<>>, args |-> <<>>, vals |-> <<>>,
     otherwise |-> FALSE, q |-> <<>>, e |-> <<>>, ret |-> NoneT, cond_args |-> <<>>]

Call(op, r, o, args) ==
    [op |-> op, status |-> r.status, fns |-> o.fns, args |-> args, vals |-> o.vals,
     otherwise |-> o.otherwise, q |-> r.q, e |-> r.e, ret |-> r.out,
     cond_args |-> IF "cond_args" \in DOMAIN r THEN r.cond_args ELSE <<>>]

\* a session starts inside or outside a tracing context, with no recording
\* context, a JaxTape's recording context or a plain recording context active
Init ==
    /\ tracing \in BOOLEAN
    /\ ctx \in {"none", "jax", "plain"}
    /\ queue = <<>>
    /\ eqns = <<>>
    /\ obj = NoObj
    /\ last = NoCall
    /\ steps = 0

\* the effect of one invocation with outcome r on the session
Effect(op, r, o, args) ==
    /\ queue' = queue \o r.q
    /\ eqns' = eqns \o r.e
    /\ last' = Call(op, r, o, args)
    /\ steps' = steps + 1
    /\ UNCHANGED <<tracing, ctx, obj>>

\* cond(pred)(true_fn): CondCallable.__init__
cond(pred, true_fn) ==
    /\ obj' = [kind |-> "cond", vals |-> <<pred>>, fns |-> <<true_fn, default_false_fn>>,
               otherwise |-> FALSE]
    /\ UNCHANGED <<tracing, ctx, queue, eqns, last, steps>>

\* CondCallable.otherwise(false_fn)
otherwise(false_fn) ==
    /\ obj.kind = "cond"
    /\ obj' = [obj EXCEPT !.fns = <<obj.fns[1], false_fn>>, !.otherwise = TRUE]
    /\ UNCHANGED <<tracing, ctx, queue, eqns, last, steps>>

\* CondCallable.__call__()
CondCall ==
    /\ obj.kind = "cond"
    /\ Effect("cond", CondCallable_call(obj.vals[1], obj.fns[1], obj.fns[2], tracing, ctx), obj, <<>>)

\* while_loop(cond_fn)(body_fn): WhileCallable.__init__
while_loop(cond_fn, body_fn) ==
    /\ obj' = [kind |-> "while", vals |-> <<>>, fns |-> <<cond_fn, body_fn>>,
               otherwise |-> FALSE]
    /\ UNCHANGED <<tracing, ctx, queue, eqns, last, steps>>

\* WhileCallable.__call__(*args)
WhileCall(args) ==
    /\ obj.kind = "while"
    /\ Effect("while", WhileCallable_call(obj.fns[1], obj.fns[2], args, tracing, ctx), obj, args)

\* for_loop(lower_bound, upper_bound, step)(body_fn): ForLoopCallable.__init__
for_loop(lower_bound, upper_bound, step, body_fn) ==
    /\ obj' = [kind |-> "for", vals |-> <<lower_bound, upper_bound, step>>,
               fns |-> <<body_fn>>, otherwise |-> FALSE]
    /\ UNCHANGED <<tracing, ctx, queue, eqns, last, steps>>

\* ForLoopCallable.__call__(*args)
ForCall(args) ==
    /\ obj.kind = "for"
    /\ Effect("for", ForLoopCallable_call(obj.vals, obj.fns[1], args, tracing, ctx), obj, args)

\* a gate applied in user code: the new operation queues itself
Gate(name, w) ==
    Effect("gate", RunStmt(GateS(name, w), tracing, ctx), NoObj, <<>>)

\* measure(wires); measurement_id is the fresh token uuid4 draws
Measure(w, measurement_id) ==
    Effect("measure", measure(w, measurement_id, ctx), NoObj, <<>>)

-----------------------------------------------------------------------------
(* Inputs *)

pred == Val("pred", bool)
k1 == Val("k1", f64)

RI == Leaf(Val("r", i64))
RW == Leaf(Val("r", wi64))
RF == Leaf(Val("r", f64))
RB == Leaf(Val("r", bool))
RBV == Leaf(Val("r", boolvec))

\* output structures of the branches of a conditional
CondRets ==
    {NoneT, RI, RW, RF, TupleT(<<RI, RI>>), ListT(<<RI, RI>>), TupleT(<<RI, RF>>),
     TupleT(<<RF, RI>>), TupleT(<<RI, TupleT(<<RI>>)>>)}

CondFns ==
    {Fn(<<>>, r, <<>>) : r \in CondRets}
    \cup {Fn(<<GateS("Hadamard", 0)>>, NoneT, <<>>), Fn(<<GateS("PauliX", 0)>>, RI, <<k1>>)}

MaxCondCalls == 1

NextCond ==
    \/ /\ steps < MaxCondCalls
       /\ \E f \in CondFns : cond(pred, f)
    \/ /\ steps < MaxCondCalls
       /\ \E f \in CondFns : otherwise(f)
    \/ /\ steps < MaxCondCalls
       /\ CondCall

SpecCond == Init /\ [][NextCond]_vars

-----------------------------------------------------------------------------
(* Loops: inputs and specification *)

X == Val("x", i64)
Y == Val("y", f64)
upper_bound == Val("upper_bound", i64)
step1 == Val("step", i64)

\* what the predicate of a while-loop returns
PredRets == {RB, RI, RBV, NoneT, TupleT(<<RB>>), TupleT(<<RB, RB>>), ListT(<<>>)}

PredFns ==
    {Fn(<<>>, r, <<>>) : r \in PredRets} \cup {Fn(<<GateS("PauliX", 0)>>, RB, <<k1>>)}

BodyFns ==
    {Fn(<<>>, RI, <<>>), Fn(<<GateS("Hadamard", 0)>>, RI, <<k1>>),
     Fn(<<GateS("Hadamard", 0), GateS("PauliX", 1)>>, NoneT, <<>>),
     Fn(<<>>, TupleT(<<RI, RF>>), <<>>)}

LoopArgs == {<<>>, <<Leaf(X)>>, <<Leaf(X), TupleT(<<Leaf(Y), Leaf(X)>>)>>}

LowerBounds == {Val("lower_bound", i64), Val("lower_bound", wi64)}

MaxLoopCalls == 1

NextLoop ==
    \/ /\ steps < MaxLoopCalls
       /\ \E c \in PredFns, b \in BodyFns : while_loop(c, b)
    \/ /\ steps < MaxLoopCalls
       /\ \E a \in LoopArgs : WhileCall(a)
    \/ /\ steps < MaxLoopCalls
       /\ \E lb \in LowerBounds, b \in BodyFns : for_loop(lb, upper_bound, step1, b)
    \/ /\ steps < MaxLoopCalls
       /\ \E a \in LoopArgs : ForCall(a)

SpecLoop == Init /\ [][NextLoop]_vars

-----------------------------------------------------------------------------
(* Whole traces: sequences and nestings of constructs, gates and measurements *)

lower_bound == Val("lower_bound", i64)

G1 == Fn(<<GateS("Hadamard", 0)>>, NoneT, <<>>)
G2 == Fn(<<GateS("Hadamard", 0), GateS("PauliX", 1)>>, RI, <<>>)
P1 == Fn(<<>>, RB, <<>>)
P2 == Fn(<<GateS("PauliZ", 1)>>, RB, <<>>)

\* callables that themselves invoke constructs and measurements
N1 == Fn(<<GateS("PauliX", 0), CondS(pred, <<G1>>)>>, NoneT, <<>>)
N2 == Fn(<<WhileS(<<P1, G2>>, <<Leaf(X)>>), MeasureS(1, "m1")>>, RI, <<k1>>)
N3 == Fn(<<ForS(<<lower_bound, upper_bound, step1>>, G1, <<>>), GateS("S", 0)>>, RI, <<>>)

TrueFns == {G1, G2, N1}
FalseFns == {G1, N3}
WhileBodies == {G2, N2}
ForBodies == {G1, N3}
TraceArgs == {<<>>, <<Leaf(X)>>}

MaxSteps == 2

Next ==
    \/ /\ steps < MaxSteps
       /\ \E f \in TrueFns : cond(pred, f)
    \/ /\ steps < MaxSteps
       /\ \E f \in FalseFns : otherwise(f)
    \/ /\ steps < MaxSteps
       /\ CondCall
    \/ /\ steps < MaxSteps
       /\ \E c \in {P1, P2}, b \in WhileBodies : while_loop(c, b)
    \/ /\ steps < MaxSteps
       /\ \E a \in TraceArgs : WhileCall(a)
    \/ /\ steps < MaxSteps
       /\ \E b \in ForBodies : for_loop(lower_bound, upper_bound, step1, b)
    \/ /\ steps < MaxSteps
       /\ \E a \in TraceArgs : ForCall(a)
    \/ /\ steps < MaxSteps
       /\ \E g \in {"Hadamard", "CNOT"}, w \in {0} : Gate(g, w)
    \/ /\ steps < MaxSteps
       /\ \E w \in {0, 1} : Measure(w, "m0")

Spec == Init /\ [][Next]_vars

-----------------------------------------------------------------------------
(* Claims about conditionals (checked under SpecCond) *)

\* the types of the user-level outputs of a callable, flattened
UserOutTypes(fn) == avals_of(tree_leaves(fn.ret))

\* the last invocation was a conditional that got past the tracing check
CondTraced == last.op = "cond" /\ tracing

EmittedNode(call, cls, prim) ==
    \/ \E i \in DOMAIN call.q : call.q[i].cls = cls
    \/ \E i \in DOMAIN call.e : call.e[i].prim = prim

\* C1: a conditional whose branches differ in the type of some user output
\* fails with TypeError and emits no Conditional node, in classical and in
\* quantum mode.
C1_MismatchRejected ==
    (CondTraced /\ UserOutTypes(last.fns[1]) # UserOutTypes(last.fns[2]))
        => (last.status = "TypeError" /\ ~EmittedNode(last, "Cond", "qcond"))

ReturnsNothing(fn) == fn.ret = NoneT
ReturnsSomething(fn) == tree_leaves(fn.ret) # <<>>

\* C2: a conditional in which one branch returns nothing and the other returns
\* at least one value raises the mismatch error, in both modes.
C2_NothingVersusSomethingRejected ==
    (CondTraced /\ ( \/ ReturnsNothing(last.fns[1]) /\ ReturnsSomething(last.fns[2])
                     \/ ReturnsSomething(last.fns[1]) /\ ReturnsNothing(last.fns[2]) ))
        => last.status = "TypeError"

\* C3: branches whose flattened output types agree but whose nested output
\* structures differ are rejected with TypeError.
C3_StructureMismatchRejected ==
    (CondTraced /\ UserOutTypes(last.fns[1]) = UserOutTypes(last.fns[2])
                /\ tree_structure(last.fns[1].ret) # tree_structure(last.fns[2].ret))
        => last.status = "TypeError"

-----------------------------------------------------------------------------
(* Claims about loops (checked under SpecLoop) *)

\* the node a loop invocation emitted: a queued operation in quantum mode, an
\* equation in classical mode
ForEmitted == last.op = "for" /\ EmittedNode(last, "ForLoop", "qfor")

\* initial loop-carried values of the emitted CountedLoop node
ForCarried ==
    IF ctx = "none"
      THEN SubSeq(last.e[1].operands, 4 + last.e[1].nconsts[1], Len(last.e[1].operands))
    ELSE last.q[1].iter_args

ForBodyJaxpr == IF ctx = "none" THEN last.e[1].jaxprs[1] ELSE last.q[1].jaxprs[1]

ForNConsts == IF ctx = "none" THEN last.e[1].nconsts[1] ELSE Len(last.q[1].consts[1])

\* the first input of the body sub-program after its captured constants is
\* the index, typed like the lower bound
ForBodyFirstInputIsIndex == ForBodyJaxpr.in_avals[ForNConsts + 1] = abstractify(last.vals[1])

\* C4 as stated: the initial loop-carried values of the emitted node do not
\* contain the lower bound / index, and the body's first input is the index.
C4_CarriedExcludeIndex ==
    ForEmitted =>
        /\ \A i \in DOMAIN ForCarried : ForCarried[i] # last.vals[1]
        /\ ForBodyFirstInputIsIndex

\* C4 amended: the initial loop-carried values of the emitted node are the
\* lower bound (the index slot) followed by the flattened user arguments and
\* never the register; the body's first input after its constants is the index
\* and the body has one input per carried value (plus the register in quantum
\* mode).
C4_CarriedStartWithIndex ==
    ForEmitted =>
        /\ ForCarried = <<last.vals[1]>> \o tree_leaves(TupleT(last.args))
        /\ \A i \in DOMAIN ForCarried : ForCarried[i] # Qreg
        /\ ForBodyFirstInputIsIndex
        /\ Len(ForBodyJaxpr.in_avals)
             = ForNConsts + Len(ForCarried) + (IF ctx = "none" THEN 0 ELSE 1)

C4_Witness ==
    /\ ForEmitted /\ ctx = "jax" /\ last.status = "ok"
    /\ ForNConsts > 0
    /\ Len(last.args) = 2

\* the predicate callable does not return exactly one boolean scalar
BadPredicate(fn) ==
    \/ fn.ret.tag # "leaf"
    \/ fn.ret.v.aval # ShapedArray(<<>>, "bool", FALSE)

WhileCondJaxpr == IF ctx = "none" THEN last.e[1].jaxprs[1] ELSE last.q[Len(last.q)].jaxprs[1]

\* C5: a while-loop invocation that emits a WhileLoop node has a predicate
\* sub-program with exactly one output, a boolean scalar; a predicate that
\* returns anything else makes the invocation fail with TypeError without
\* emitting a WhileLoop node, in classical and in quantum mode.
C5_PredicateBooleanScalar ==
    (last.op = "while" /\ tracing) =>
        /\ EmittedNode(last, "WhileLoop", "qwhile")
              => WhileCondJaxpr.out_avals = <<ShapedArray(<<>>, "bool", FALSE)>>
        /\ BadPredicate(last.fns[1])
              => (last.status = "TypeError" /\ ~EmittedNode(last, "WhileLoop", "qwhile"))

C5_Witness ==
    /\ last.op = "while" /\ tracing /\ ctx = "jax"
    /\ last.fns[1].ret = RBV
    /\ last.status = "TypeError"

-----------------------------------------------------------------------------
(* Claims about whole traces (checked under Spec) *)

\* C7: a conditional, a while-loop or a counted loop invoked when no tracing
\* context is active fails with UsageError before anything is captured, run or
\* emitted, whatever recording context is active.
C7_OutsideTracingUsageError ==
    (last.op \in {"cond", "while", "for"} /\ ~tracing)
        => (last.status = "UsageError" /\ last.q = <<>> /\ last.e = <<>>)

C7_Witness ==
    /\ last.op = "while" /\ ~tracing /\ ctx = "jax"
    /\ last.fns[1] = P2
    /\ last.status = "UsageError"

\* C8: measure succeeds, returning one boolean-typed placeholder, exactly when
\* the active recording context exists and carries a jax_tape; otherwise it
\* fails with ValueError.
C8_MeasureNeedsJaxTape ==
    last.op = "measure" =>
        IF ctx = "jax"
          THEN last.status = "ok" /\ last.ret = Leaf(Tracer(ShapedArray(<<>>, "bool", FALSE)))
        ELSE last.status = "ValueError"

C8_Witness == last.op = "measure" /\ ctx = "jax" /\ last.status = "ok" /\ Len(last.q) = 1

-----------------------------------------------------------------------------
(* Register linearity of the traced program (checked under Spec) *)

RegCount(avals) == Cardinality({i \in DOMAIN avals : avals[i] = AbstractQreg})

OneRegisterLast(avals) ==
    /\ avals # <<>>
    /\ avals[Len(avals)] = AbstractQreg
    /\ RegCount(avals) = 1

Consuming(es) == {i \in DOMAIN es : es[i].reg_in # -1}

Producing(es) == {i \in DOMAIN es : es[i].reg_out # -1}

\* the equations es thread one register from r0 (-1: none handed in) to rOut:
\* every register is produced before it is used, is used at most once, and is
\* either used or handed back
Threaded(es, r0, rOut) ==
    /\ \A i \in Consuming(es) :
          \/ r0 # -1 /\ es[i].reg_in = r0
          \/ \E j \in Producing(es) : j < i /\ es[j].reg_out = es[i].reg_in
    /\ \A i, j \in Consuming(es) : i # j => es[i].reg_in # es[j].reg_in
    /\ \A i, j \in Producing(es) : i # j => es[i].reg_out # es[j].reg_out
    /\ \A i \in Producing(es) :
          /\ es[i].reg_out # r0
          /\ es[i].reg_out = rOut \/ \E j \in Consuming(es) : es[j].reg_in = es[i].reg_out
    /\ r0 # -1 => (r0 = rOut \/ \E j \in Consuming(es) : es[j].reg_in = r0)
    /\ \A j \in Consuming(es) : es[j].reg_in # rOut
    /\ (r0 # -1 /\ rOut = r0) \/ \E i \in Producing(es) : es[i].reg_out = rOut

RECURSIVE LinearBody(_)

\* the branch and body sub-programs of an equation; a while-loop's first
\* sub-program is its predicate, which is handed the register but is no body
Bodies(e) == IF e.prim = "qwhile" THEN Tail(e.jaxprs) ELSE e.jaxprs

LinearEqn(e) ==
    /\ e.jaxprs # <<>> =>
          /\ e.operands # <<>> /\ e.operands[Len(e.operands)] = Qreg
          /\ Cardinality({i \in DOMAIN e.operands : e.operands[i] = Qreg}) = 1
    /\ e.prim = "qwhile" =>
          /\ OneRegisterLast(e.jaxprs[1].in_avals)
          /\ RegCount(e.jaxprs[1].out_avals) = 0
          /\ Consuming(e.jaxprs[1].eqns) = {}
    /\ \A i \in DOMAIN Bodies(e) : LinearBody(Bodies(e)[i])

LinearBody(J) ==
    /\ OneRegisterLast(J.in_avals)
    /\ OneRegisterLast(J.out_avals)
    /\ Threaded(J.eqns, 0, J.reg_out)
    /\ \A i \in DOMAIN J.eqns : LinearEqn(J.eqns[i])

RECURSIVE Producers(_), Consumers(_), NestedProducers(_), NestedConsumers(_)

Producers(es) ==
    IF es = <<>> THEN 0
    ELSE (IF Head(es).reg_out # -1 THEN 1 ELSE 0)
         + NestedProducers(Head(es).jaxprs) + Producers(Tail(es))

NestedProducers(js) ==
    IF js = <<>> THEN 0 ELSE Producers(Head(js).eqns) + NestedProducers(Tail(js))

Consumers(es) ==
    IF es = <<>> THEN 0
    ELSE (IF Head(es).reg_in # -1 THEN 1 ELSE 0)
         + NestedConsumers(Head(es).jaxprs) + Consumers(Tail(es))

NestedConsumers(js) ==
    IF js = <<>> THEN 0 ELSE Consumers(Head(js).eqns) + NestedConsumers(Tail(js))

\* the quantum program the recorded tape becomes: the allocation of the
\* initial register, then the tape threaded through it
Program ==
    Let(trace_quantum_tape(queue, NoneT, 0, FALSE), LAMBDA t :
        [eqns |-> <<Eqn("qalloc", "", <<>>, <<>>, <<>>, -1, 0)>> \o t.eqns,
         reg_out |-> t.qreg])

\* C6: in the program traced from a recording context with register threading,
\* register-producing operations number one more than register-consuming ones,
\* no register is consumed twice or dropped, and every branch and body
\* sub-program takes exactly one register as its last input and returns exactly
\* one as its last output.
C6_RegisterLinearity ==
    ctx = "jax" =>
        /\ Producers(Program.eqns) = Consumers(Program.eqns) + 1
        /\ Threaded(Program.eqns, -1, Program.reg_out)
        /\ \A i \in DOMAIN Program.eqns : LinearEqn(Program.eqns[i])

C6_Witness ==
    /\ tracing /\ ctx = "jax" /\ Len(queue) = 2
    /\ queue[1].cls = "WhileLoop"
    /\ \E i \in DOMAIN queue[1].jaxprs[2].eqns : queue[1].jaxprs[2].eqns[i].prim = "qwhile"
    /\ queue[2].cls = "Cond"

-----------------------------------------------------------------------------
(* Differentiation requests (SpecGrad) *)

GradRequest(f, method, h, argnum, r) ==
    [op |-> "grad", status |-> r.status, q |-> <<>>, e |-> <<>>,
     f |-> f, method |-> method, h |-> h, argnum |-> argnum]

\* g = grad(f, method=..., h=..., argnum=...)
GradNew(f, method, h, argnum) ==
    /\ obj' = grad(f, method, h, argnum).obj
    /\ last' = GradRequest(f, method, h, argnum, grad(f, method, h, argnum))
    /\ UNCHANGED <<tracing, ctx, queue, eqns, steps>>

\* g(*args) inside a trace
GradCall(args) ==
    /\ tracing
    /\ obj.kind = "Grad"
    /\ eqns' = eqns \o Grad_call(obj, args).e
    /\ last' = [op |-> "gradcall", status |-> Grad_call(obj, args).status, q |-> <<>>,
                e |-> Grad_call(obj, args).e, captured |-> make_jaxpr(obj.fn, args)]
    /\ steps' = steps + 1
    /\ UNCHANGED <<tracing, ctx, queue, obj>>

Callees ==
    {QNode("circuit"), PlainFunction("f"), Partial,
     ForeignQNode("circuit", "default.qubit"),
     UnpatchedQNode("circuit", <<>>),
     UnpatchedQNode("circuit", <<other_p(<<X>>)>>),
     UnpatchedQNode("circuit", <<func_p(QNode("circuit"), <<X>>), other_p(<<X>>)>>)}
Methods == {None, Str("fd"), Str("ps"), Str("bad")}
StepSizes == {None, PyInt(0), Str("0.1")}
ArgNums == {None, PyInt(1), List(<<PyInt(0), PyInt(1)>>)}

RECURSIVE order(_)
\* how many grads are stacked in g
order(g) ==
    IF g.kind = "Grad" THEN 1 + order(g.fn)
    ELSE IF g.kind = "Function" THEN order(g.fn)
    ELSE 0

MaxOrder == 2
MaxGradCalls == 1

NextGrad ==
    \/ /\ steps = 0 /\ last = NoCall
       /\ \E f \in Callees, method \in Methods, h \in StepSizes, argnum \in ArgNums :
             GradNew(f, method, h, argnum)
    \/ /\ steps = 0
       /\ obj.kind = "Grad" /\ order(obj) < MaxOrder
       /\ \E method \in Methods, h \in StepSizes, argnum \in ArgNums :
             GradNew(obj, method, h, argnum)
    \/ /\ steps < MaxGradCalls
       /\ GradCall(<<X>>)

SpecGrad == Init /\ [][NextGrad]_vars

Closed == {Str("fd"), Str("ps"), Str("adj")}

\* the request last made is misconfigured
Misconfigured ==
    \/ (IF last.method = None THEN Str("fd") ELSE last.method) \notin Closed
    \/ ~(last.h = None \/ isNumber(last.h))
    \/ last.method \notin {None, Str("fd")} /\ last.f.kind # "QNode"

\* C9: a misconfigured differentiation request (method outside fd/ps/adj, a
\* step size that is not a number, a method other than fd on a callee that is
\* no quantum program) fails when grad constructs it - no Grad comes into
\* being, nothing is captured or emitted - so every Grad that exists is well
\* configured.
C9_ConfigurationErrorsAtConstruction ==
    /\ (last.op = "grad" /\ Misconfigured) =>
          /\ last.status \in {"AssertionError", "AttributeError"}
          /\ hasName(last.f) => last.status = "AssertionError"
          /\ obj = NoObj /\ last.e = <<>> /\ last.q = <<>>
    /\ obj.kind = "Grad" =>
          /\ obj.method \in Closed
          /\ obj.h = None \/ isNumber(obj.h)
          /\ obj.method # Str("fd") => obj.fn.kind = "QNode"

C9_Witness ==
    /\ last.op = "grad" /\ last.f = PlainFunction("f") /\ last.method = Str("ps")
    /\ last.h = None
    /\ last.status = "AssertionError"

\* C10: grad normalises its parameters: no method becomes fd; fd with no step
\* size gets the default step size and a numeric step size is kept; no argument
\* indices become [0] and a single integer becomes a one-element list; the Grad
\* holds a method of the closed set and a list of indices.
C10_ParametersNormalised ==
    (last.op = "grad" /\ last.status = "ok") =>
        /\ obj.kind = "Grad"
        /\ obj.method = (IF last.method = None THEN Str("fd") ELSE last.method)
        /\ obj.method \in Closed
        /\ (obj.method = Str("fd") /\ last.h = None) => obj.h = PyFloat("1e-7")
        /\ isNumber(last.h) => obj.h = last.h
        /\ last.argnum = None => obj.argnum = List(<<PyInt(0)>>)
        /\ last.argnum.kind = "int" => obj.argnum = List(<<last.argnum>>)
        /\ obj.argnum.kind = "list"

C10_Witness ==
    /\ last.op = "grad" /\ last.status = "ok"
    /\ last.method = None /\ last.h = None /\ last.argnum = PyInt(1)
    /\ obj.method = Str("fd") /\ obj.h = PyFloat("1e-7") /\ obj.argnum = List(<<PyInt(1)>>)

\* the last call of a Grad bound a grad equation
GradEmitted == \E i \in DOMAIN last.e : last.e[i].prim = "grad"

\* the program captured from the wrapped callable is one func equation
OneFunctionCall(jaxpr) == Len(jaxpr.eqns) = 1 /\ jaxpr.eqns[1].prim = "func"

\* C11: calling a Grad binds a grad equation only if capturing the wrapped
\* callable yields exactly one top-level equation and that one is a func
\* equation; a captured program with none, with several, or with one equation
\* of another primitive makes the call fail with AssertionError and bind
\* nothing.
C11_GradOnlyOfOneFunctionCall ==
    last.op = "gradcall" =>
        /\ GradEmitted => (last.captured.status = "ok" /\ OneFunctionCall(last.captured))
        /\ (last.captured.status = "ok" /\ ~OneFunctionCall(last.captured)) =>
              (last.status = "AssertionError" /\ last.e = <<>>)
        /\ (last.captured.status = "ok" /\ OneFunctionCall(last.captured)) =>
              (last.status = "ok" /\ Len(last.e) = 1 /\ GradEmitted)

C11_Witness ==
    /\ last.op = "gradcall"
    /\ last.captured.status = "ok" /\ Len(last.captured.eqns) = 2
    /\ last.status = "AssertionError"

-----------------------------------------------------------------------------
(* The device's decomposition policy (SpecExpand) *)

\* device.default_expand_fn(circuit, max_expansion)
Expand(circuit, max_expansion) ==
    /\ last' = [op |-> "expand", circuit |-> circuit, max_expansion |-> max_expansion,
                status |-> default_expand_fn(circuit, max_expansion).status,
                expanded_tape |-> default_expand_fn(circuit, max_expansion).tape]
    /\ UNCHANGED <<tracing, ctx, queue, eqns, obj, steps>>

\* gates: supported, decomposable in one and in two rounds, controlled,
\* without decomposition, and PennyLane's own mid-circuit measurement
GateNames == {"Hadamard", "Rot", "U3", "Controlled", "ControlledQubitUnitary", "MyGate",
              "MidMeasureMP"}

ObservableNames == {"PauliZ", "Hermitian", "Projector"}

MaxOps == 2

RECURSIVE OpSeqs(_)
\* the sequences of at most n gates on wire 0
OpSeqs(n) ==
    IF n = 0 THEN {<<>>}
    ELSE OpSeqs(n - 1)
         \cup {Append(c, GateOp(g, 0)) : c \in OpSeqs(n - 1), g \in GateNames}

Circuits ==
    {Tape(ops, obs) : ops \in OpSeqs(MaxOps),
                      obs \in {<<>>} \cup {<<Observable(o, 0)>> : o \in ObservableNames}}

Expansions == {0, 1, 10}

\* one application of the policy to a recorded tape
NextExpand ==
    /\ last = NoCall
    /\ \E circuit \in Circuits, max_expansion \in Expansions : Expand(circuit, max_expansion)

SpecExpand == Init /\ [][NextExpand]_vars

\* C12: whenever default_expand_fn returns a tape, every operation of it is in
\* the operations list and every observable of it is in the observables list.
C12_ExpandedWithinVocabulary ==
    (last.op = "expand" /\ last.status = "ok") =>
        /\ \A i \in DOMAIN last.expanded_tape.operations :
              last.expanded_tape.operations[i].cls \in operations
        /\ \A i \in DOMAIN last.expanded_tape.observables :
              last.expanded_tape.observables[i].name \in observables

-----------------------------------------------------------------------------
(* Order of emission (checked under Spec) *)

RECURSIVE FlatStmts(_, _)
\* the statements of a callable in the order their operations reach the
\* program the callable is captured into.  Under a recording context (c not
\* "none") a while-loop's predicate runs under that same context, before the
\* loop's own operation is queued; without one, gates are recorded nowhere
FlatStmts(stmts, c) ==
    IF stmts = <<>> THEN <<>>
    ELSE (IF c = "none"
            THEN (IF Head(stmts).k = "gate" THEN <<>> ELSE <<Head(stmts)>>)
          ELSE (IF Head(stmts).k = "while" THEN FlatStmts(Head(stmts).fns[1].stmts, c)
                ELSE <<>>) \o <<Head(stmts)>>)
         \o FlatStmts(Tail(stmts), c)

\* the operation a statement stands for
StmtName(s) ==
    CASE s.k = "gate" -> s.name
      [] s.k = "measure" -> "MidCircuitMeasure"
      [] s.k = "cond" -> "Cond"
      [] s.k = "while" -> "WhileLoop"
      [] s.k = "for" -> "ForLoop"

\* the operation a queued operation or an equation stands for
ItemName(x) ==
    IF "cls" \in DOMAIN x THEN x.cls
    ELSE CASE x.prim = "qinst" -> x.name
           [] x.prim = "qmeasure" -> "MidCircuitMeasure"
           [] x.prim = "qcond" -> "Cond"
           [] x.prim = "qwhile" -> "WhileLoop"
           [] x.prim = "qfor" -> "ForLoop"
           [] OTHER -> x.prim

IsInsert(x) == "prim" \in DOMAIN x /\ x.prim = "qinsert"

NotInsert(x) == ~IsInsert(x)

RECURSIVE InOrder(_, _, _)

\* item x is what statement s emits, and its sub-programs hold what the
\* functions of s emit
Matches(x, s, c) ==
    /\ ItemName(x) = StmtName(s)
    /\ s.k = "measure" => (IF "cls" \in DOMAIN x THEN x.id ELSE x.name) = s.name
    /\ s.k = "cond" =>
          /\ InOrder(x.jaxprs[1].eqns, s.fns[1].stmts, c)
          /\ InOrder(x.jaxprs[2].eqns,
                     IF Len(s.fns) > 1 THEN s.fns[2].stmts ELSE default_false_fn.stmts, c)
    /\ s.k = "while" =>
          /\ IF c = "none" THEN InOrder(x.jaxprs[1].eqns, s.fns[1].stmts, c)
             ELSE x.jaxprs[1].eqns = <<>>
          /\ InOrder(x.jaxprs[2].eqns, s.fns[2].stmts, c)
    /\ s.k = "for" => InOrder(x.jaxprs[1].eqns, s.fns[1].stmts, c)

\* the items (queued operations, or equations of a sub-program up to the final
\* insertion) are exactly what stmts emit, in the order of stmts
InOrder(items, stmts, c) ==
    /\ \A i \in DOMAIN items : IsInsert(items[i]) => i = Len(items)
    /\ Len(SelectSeq(items, NotInsert)) = Len(FlatStmts(stmts, c))
    /\ \A i \in DOMAIN FlatStmts(stmts, c) :
          Matches(SelectSeq(items, NotInsert)[i], FlatStmts(stmts, c)[i], c)

\* a user-level invocation as the statement it is
CallStmt(call) ==
    CASE call.op = "cond" -> CondS(call.vals[1], call.fns)
      [] call.op = "while" -> WhileS(call.fns, call.args)
      [] call.op = "for" -> ForS(call.vals, call.fns[1], call.args)
      [] call.op = "measure" -> MeasureS(call.q[1].wires[1], call.q[1].id)
      [] call.op = "gate" -> GateS(call.q[1].cls, call.q[1].wires[1])

-----------------------------------------------------------------------------
(* The register in a while-loop under a recording context (SpecLoop) *)

\* the WhileLoop operation the last invocation queued
WhileOp == last.q[Len(last.q)]

HasRegister(vals) == \E i \in DOMAIN vals : abstractify(vals[i]) = AbstractQreg

\* C14: a while-loop invoked under a recording context with a jax_tape calls
\* its predicate with the loop-carried arguments and no register; its body
\* sub-program takes the register as last input and returns it as last output;
\* the initial loop-carried values of the node hold no register; and user code
\* gets back the structure the body returns, with no register in it.
C14_RegisterThroughBodyOnly ==
    (last.op = "while" /\ tracing /\ ctx = "jax" /\ last.status = "ok") =>
        /\ last.cond_args = last.args
        /\ ~HasRegister(tree_leaves(TupleT(last.cond_args)))
        /\ OneRegisterLast(WhileOp.jaxprs[2].in_avals)
        /\ OneRegisterLast(WhileOp.jaxprs[2].out_avals)
        /\ WhileOp.jaxprs[2].reg_out # -1
        /\ WhileOp.iter_args = tree_leaves(TupleT(last.args))
        /\ ~HasRegister(WhileOp.iter_args)
        /\ tree_structure(last.ret) = tree_structure(last.fns[2].ret)
        /\ avals_of(tree_leaves(last.ret)) = avals_of(tree_leaves(last.fns[2].ret))
        /\ ~HasRegister(tree_leaves(last.ret))

C14_Witness ==
    /\ last.op = "while" /\ tracing /\ ctx = "jax" /\ last.status = "ok"
    /\ last.args = <<Leaf(X), TupleT(<<Leaf(Y), Leaf(X)>>)>>
    /\ last.fns[2] = Fn(<<GateS("Hadamard", 0)>>, RI, <<k1>>)
    /\ Len(WhileOp.jaxprs[2].eqns) = 2

-----------------------------------------------------------------------------
(* Failing measurements (checked under Spec) *)

\* C15: a measure call that raises its ValueError has recorded no
\* MidCircuitMeasure operation into an active recording context.
C15_FailingMeasureRecordsNothing ==
    [][ (steps' = steps + 1 /\ last'.op = "measure" /\ last'.status = "ValueError")
        => queue' = queue ]_vars

====
